---------------------------- MODULE Spec2Model ----------------------------
(***************************************************************************)
(* simplegeom: point / segment / polyline distance computations            *)
(* (include/simplegeom/algorithm.h), planar two-dimensional points.        *)
(*                                                                         *)
(* Number representation.  The code computes in double; the model computes *)
(* the same expressions exactly:                                           *)
(*   - a coordinate is a rational, a point is [x, y, w] standing for       *)
(*     (x/w, y/w) with w > 0 (input points have w = 1);                    *)
(*   - a distance is [sg, n, d] standing for sg * sqrt(n/d), d > 0, kept   *)
(*     in lowest terms (sg = -1 only for the sentinel -1);                 *)
(*   - a sum of distances (project_distance) is the sequence of its terms. *)
(* Lengths are counted in grid units of `unit` source units, so that the   *)
(* constant kSearchBoxEdgeLength is (kSearchBoxEdgeLength / unit) grid     *)
(* units; unit = 1 gives polylines close to the query point, unit =        *)
(* kSearchBoxEdgeLength gives polylines that leave the initial search box. *)
(***************************************************************************)
EXTENDS Integers, Sequences, FiniteSets

\* ------------------------------------------------------------- bounds ---
MaxCoord == 2       \* grid coordinates of the points of a polyline query
MaxLen == 3         \* points of a polyline
MaxCoordSeg == 5    \* grid coordinates of the points of a closest_point call
MaxEdge == 9        \* edge lengths handed to create_box
SampleDen == 4      \* points of a segment compared with closest_point: a + (j/m)(b - a)
Precision == 1000   \* sums of square roots are bracketed to within 1/Precision per term

\* ---------------------------------------------------- program constants ---
kSearchBoxEdgeLength == 2000

kSimple == "kSimple"
kAccumulate == "kAccumulate"
ProjectionMode == {kSimple, kAccumulate}

\* source units per grid unit: 1, or the initial search box size
Units == {1, kSearchBoxEdgeLength}

\* ------------------------------------------------------------ numbers ---
Abs(a) == IF a < 0 THEN -a ELSE a

Sign(a) == IF a < 0 THEN -1 ELSE IF a = 0 THEN 0 ELSE 1

RECURSIVE GCD(_, _)
GCD(a, b) == IF b = 0 THEN a ELSE GCD(b, a % b)

\* sg * sqrt(n/d) in lowest terms
Root(sg, n, d) ==
    IF n = 0 THEN [sg |-> 1, n |-> 0, d |-> 1]
    ELSE LET g == GCD(n, d) IN [sg |-> sg, n |-> n \div g, d |-> d \div g]

\* the number k as a distance value
Num(k) == Root(Sign(k), k * k, 1)

\* k * r for an integer k >= 0
Times(k, r) == Root(r.sg, k * k * r.n, r.d)

\* r1 < r2
Less(r1, r2) ==
    IF r1.sg > 0 /\ r2.sg > 0 THEN r1.n * r2.d < r2.n * r1.d
    ELSE IF r1.sg < 0 /\ r2.sg < 0 THEN r2.n * r1.d < r1.n * r2.d
    ELSE r1.sg < r2.sg

LessEq(r1, r2) == ~Less(r2, r1)

\* ------------------------------------------------------------- points ---
Pt(x, y) == [x |-> x, y |-> y, w |-> 1]

SamePoint(p, q) ==
    /\ p.w > 0 /\ q.w > 0
    /\ p.x * q.w = q.x * p.w /\ p.y * q.w = q.y * p.w

Grid(m) == {Pt(x, y) : x \in 0..m, y \in 0..m}

Points == Grid(MaxCoord)

Segment(a, b) == [first |-> a, second |-> b]

\* a coordinate c + m * e of a box corner (c, m integers, e a distance)
Coord(c, m, e) == [c |-> c, m |-> m, e |-> e]

\* c + m * e <= vn / vd, for vd > 0
CoordLeq(k, vn, vd) ==
    LET r  == vn - k.c * vd
        sl == Sign(k.m) * k.e.sg * Sign(k.e.n)
        l2 == k.m * k.m * k.e.n * vd * vd
        r2 == r * r * k.e.d
    IN  IF sl <= 0 /\ r >= 0 THEN TRUE
        ELSE IF sl >= 0 /\ r < 0 THEN FALSE
        ELSE IF sl > 0 THEN l2 <= r2
        ELSE l2 >= r2

\* vn / vd <= c + m * e, for vd > 0
CoordGeq(k, vn, vd) ==
    LET r  == vn - k.c * vd
        sl == Sign(k.m) * k.e.sg * Sign(k.e.n)
        l2 == k.m * k.m * k.e.n * vd * vd
        r2 == r * r * k.e.d
    IN  IF sl >= 0 /\ r <= 0 THEN TRUE
        ELSE IF sl <= 0 /\ r > 0 THEN FALSE
        ELSE IF sl > 0 THEN l2 >= r2
        ELSE l2 <= r2


\* ---------------------------------------------------------- create_box ---
\* Box(Point(cx - edge_length, cy - edge_length),
\*     Point(cx + edge_length, cy + edge_length))
create_box(center_point, edge_length) ==
    [min_corner |-> [x |-> Coord(center_point.x, -1, edge_length),
                     y |-> Coord(center_point.y, -1, edge_length)],
     max_corner |-> [x |-> Coord(center_point.x, 1, edge_length),
                     y |-> Coord(center_point.y, 1, edge_length)]]

\* ------------------------------------------------------- closest_point ---
\* IEEE division n / d of finite values: 0/0 is NaN, x/0 is an infinity
FDiv(n, d) ==
    IF d # 0 THEN [kind |-> "finite", n |-> Sign(d) * n, d |-> Abs(d)]
    ELSE IF n = 0 THEN [kind |-> "nan", n |-> 0, d |-> 1]
    ELSE [kind |-> "inf", n |-> Sign(n), d |-> 1]

\* std::min(k, t) and std::max(k, t) for a constant k and a non-NaN t
FMin(k, t) ==
    IF t.kind = "inf" THEN (IF t.n < 0 THEN t ELSE FDiv(k, 1))
    ELSE IF t.n > k * t.d THEN FDiv(k, 1) ELSE t

FMax(k, t) ==
    IF t.kind = "inf" THEN (IF t.n > 0 THEN t ELSE FDiv(k, 1))
    ELSE IF t.n < k * t.d THEN FDiv(k, 1) ELSE t

\* the clamp with min and max exchanged: std::min(0., std::max(1., t))
ClampSwapped(t) == IF t.kind = "nan" THEN FDiv(0, 1) ELSE FMin(0, FMax(1, t))

\* the clamp without the NaN test
ClampNoNan(t) == IF t.kind = "nan" THEN t ELSE FMax(0, FMin(1, t))

\* t = std::isnan(t) ? 0. : std::max(0., std::min(1., t))
Clamp(t) == IF t.kind = "nan" THEN FDiv(0, 1) ELSE FMax(0, FMin(1, t))

\* a point whose coordinates are NaN
NaNPoint == [x |-> 0, y |-> 0, w |-> 0]

IsNaNPoint(p) == p.w = 0

closest_point(p, seg) ==
    LET a   == seg.first
        b   == seg.second
        abx == b.x - a.x
        aby == b.y - a.y
        apx == p.x - a.x
        apy == p.y - a.y
        t   == Clamp(FDiv(apx * abx + apy * aby, abx * abx + aby * aby))
    IN  IF t.kind # "finite" THEN NaNPoint
        ELSE [x |-> a.x * t.d + t.n * abx, y |-> a.y * t.d + t.n * aby, w |-> t.d]

\* ------------------------------------------------------------ distance ---
\* bg::distance(p1, p2): Euclidean distance of two planar points
distance(p1, p2) ==
    LET dx == p1.x * p2.w - p2.x * p1.w
        dy == p1.y * p2.w - p2.y * p1.w
        dw == p1.w * p2.w
    IN  Root(1, dx * dx + dy * dy, dw * dw)

\* bg::distance(point, segment): the projected-point strategy
bg_distance(point, seg) ==
    LET a  == seg.first
        b  == seg.second
        vx == b.x - a.x
        vy == b.y - a.y
        wx == point.x - a.x
        wy == point.y - a.y
        c1 == wx * vx + wy * vy
        c2 == vx * vx + vy * vy
    IN  IF c1 <= 0 THEN distance(point, a)
        ELSE IF c2 <= c1 THEN distance(point, b)
        ELSE Root(1, (wx * wx + wy * wy) * c2 - c1 * c1, c2)

\* distance(point, geometry) == bg::distance(point, geometry)
distance_geometry(point, geometry) == bg_distance(point, geometry)

\* ---------------------------------------------------------- intersects ---
\* the point a + (tn/td) * (b - a) of seg lies in the closed box
InBoxAt(seg, box, tn, td) ==
    LET a  == seg.first
        b  == seg.second
        xn == a.x * td + tn * (b.x - a.x)
        yn == a.y * td + tn * (b.y - a.y)
    IN  /\ CoordLeq(box.min_corner.x, xn, td)
        /\ CoordGeq(box.max_corner.x, xn, td)
        /\ CoordLeq(box.min_corner.y, yn, td)
        /\ CoordGeq(box.max_corner.y, yn, td)

\* the parameters tn/td in [0, 1] at which max(|x - cx|, |y - cy|) can be least
\* along seg: the end points and the break points of the two absolute values
Candidates(seg, cx, cy) ==
    LET ux == seg.first.x - cx
        uy == seg.first.y - cy
        wx == seg.second.x - seg.first.x
        wy == seg.second.y - seg.first.y
        raw == {<<0, 1>>, <<1, 1>>, <<-ux, wx>>, <<-uy, wy>>,
                <<-(ux - uy), wx - wy>>, <<-(ux + uy), wx + wy>>}
        pos == {<<Sign(q[2]) * q[1], Abs(q[2])>> : q \in {r \in raw : r[2] # 0}}
    IN  {q \in pos : 0 <= q[1] /\ q[1] <= q[2]}

\* bg::intersects(seg, box): some point of the segment lies in the closed box
bg_intersects(seg, box) ==
    \E q \in Candidates(seg, box.min_corner.x.c, box.min_corner.y.c) :
        InBoxAt(seg, box, q[1], q[2])

\* ------------------------------------------- distance(point, line, mode) ---
VARIABLES
    unit,              \* source units per grid unit (scale of the inputs)
    point, line, mode, \* the arguments
    pc,                \* position in the function
    i,                 \* loop counter of the scan
    index,             \* index of the best segment so far
    search_box_size,
    seg, box,          \* the segment and the probe box of the last iteration
    closest, project_distance,
    result,            \* the returned pair
    skipped,           \* history: indices dropped by the intersection test
    visited,           \* history: indices examined, in order
    updated,           \* history: some segment has replaced the initial bound
    samples            \* projection distances sampled at the vertices

vars == <<unit, point, line, mode, pc, i, index, search_box_size, seg, box,
          closest, project_distance, result, skipped, visited, updated, samples>>

\* line.at(k)
At(l, k) == l[k + 1]

SegmentAt(l, k) == Segment(At(l, k), At(l, k + 1))

\* kSearchBoxEdgeLength in grid units
InitialSize(u) == Root(1, kSearchBoxEdgeLength * kSearchBoxEdgeLength, u * u)

\* !bg::intersects(seg, create_box(point, search_box_size))
Skips(p, s, size) == ~bg_intersects(s, create_box(p, size))

\* the doubling left out: d = distance(point, seg)
NotDoubled(p, s) == distance_geometry(p, s)

\* d = distance(point, seg) * 2
Doubled(p, s) == Times(2, distance_geometry(p, s))

\* the update test admitting ties: d <= search_box_size
BeatsOrTies(d, size) == LessEq(d, size)

\* d < search_box_size
Beats(d, size) == Less(d, size)

\* one iteration of the scan on segment k, from st = (index, search_box_size);
\* taken names the branch the iteration took
ScanStep(p, s, k, st) ==
    IF Skips(p, s, st.search_box_size)
    THEN [index |-> st.index, search_box_size |-> st.search_box_size, taken |-> "skip"]
    ELSE IF Beats(Doubled(p, s), st.search_box_size)
         THEN [index |-> k, search_box_size |-> Doubled(p, s), taken |-> "update"]
         ELSE [index |-> st.index, search_box_size |-> st.search_box_size,
               taken |-> "keep"]

\* the scan from iteration k to the end of the line
RECURSIVE Scan(_, _, _, _)
Scan(p, l, k, st) ==
    IF k < Len(l) - 1 THEN Scan(p, l, k + 1, ScanStep(p, SegmentAt(l, k), k, st))
    ELSE st

\* the accumulation with the mode test inverted
AccumulatedInverted(l, best, m) ==
    IF m = kSimple THEN [j \in 1..best |-> distance(At(l, j - 1), At(l, j))]
    ELSE << >>

\* the accumulation running one segment too far (i <= index)
AccumulatedInclusive(l, best, m) ==
    IF m = kAccumulate THEN [j \in 1..(best + 1) |-> distance(At(l, j - 1), At(l, j))]
    ELSE << >>

\* for (i = 0; i < index; ++i) project_distance += distance(line.at(i), line.at(i + 1))
Accumulated(l, best, m) ==
    IF m = kAccumulate THEN [j \in 1..best |-> distance(At(l, j - 1), At(l, j))]
    ELSE << >>

\* project_distance after  project_distance += distance(seg.first, closest)
Projected(p, l, best, m) ==
    LET s == SegmentAt(l, best)
    IN  Append(Accumulated(l, best, m), distance(s.first, closest_point(p, s)))

\* the early return for an empty line giving 0 instead of the sentinel
DegenerateZero(p, l) ==
    IF l = << >> THEN <<Num(0), << >> >>
    ELSE <<distance(p, l[1]), << >> >>

\* the returns for line.empty() and line.size() < 2
Degenerate(p, l) ==
    IF l = << >> THEN <<Num(-1), << >> >>
    ELSE <<distance(p, l[1]), << >> >>

\* the whole function
distance_line(p, l, m, u) ==
    IF Len(l) < 2 THEN Degenerate(p, l)
    ELSE LET st == Scan(p, l, 0, [index |-> 0, search_box_size |-> InitialSize(u),
                                       taken |-> "none"])
         IN  <<bg_distance(p, SegmentAt(l, st.index)), Projected(p, l, st.index, m)>>

\* ------------------------------------------------------ initial states ---
Lines == UNION {[1..n -> Points] : n \in 0..MaxLen}

NoSegment == Segment(Pt(0, 0), Pt(0, 0))

NoBox == create_box(Pt(0, 0), Num(0))

NoResult == <<Num(0), << >> >>

Locals ==
    /\ i = 0 /\ index = 0
    /\ box = NoBox /\ closest = Pt(0, 0) /\ project_distance = << >>
    /\ result = NoResult
    /\ skipped = {} /\ visited = << >> /\ updated = FALSE

\* a call of distance(point, line, mode)
Init ==
    /\ unit \in Units
    /\ point \in Points /\ line \in Lines /\ mode \in ProjectionMode
    /\ pc = "call"
    /\ search_box_size = Num(0) /\ seg = NoSegment /\ samples = << >>
    /\ Locals

\* a call of closest_point(point, seg)
InitClosest ==
    /\ unit = 1
    /\ point \in Grid(MaxCoordSeg)
    /\ seg \in {Segment(a, b) : a \in Grid(MaxCoordSeg), b \in Grid(MaxCoordSeg)}
    /\ line = << >> /\ mode = kSimple
    /\ pc = "closest_point"
    /\ search_box_size = Num(0) /\ samples = << >>
    /\ Locals

\* a call of create_box(point, search_box_size)
InitBox ==
    /\ unit = 1
    /\ point \in Points /\ search_box_size \in {Num(e) : e \in 0..MaxEdge}
    /\ line = << >> /\ mode = kSimple
    /\ pc = "create_box"
    /\ seg = NoSegment /\ samples = << >>
    /\ Locals

\* calls of distance(line[k], line, kAccumulate) for k = 0, 1, ...
InitVertices ==
    /\ unit \in Units
    /\ line \in {l \in Lines : Len(l) >= 2}
    /\ point = Pt(0, 0) /\ mode = kAccumulate
    /\ pc = "vertices"
    /\ search_box_size = Num(0) /\ seg = NoSegment /\ samples = << >>
    /\ Locals

\* ------------------------------------------------------------- actions ---
\* if (line.empty()) return std::make_pair(-1., 0.)
ReturnEmpty ==
    /\ pc = "call" /\ line = << >>
    /\ result' = Degenerate(point, line)
    /\ pc' = "done"
    /\ UNCHANGED <<unit, point, line, mode, i, index, search_box_size, seg, box,
                   closest, project_distance, skipped, visited, updated, samples>>

\* else if (line.size() < 2) return std::make_pair(distance(point, line.front()), 0.)
ReturnSingle ==
    /\ pc = "call" /\ line # << >> /\ Len(line) < 2
    /\ result' = Degenerate(point, line)
    /\ pc' = "done"
    /\ UNCHANGED <<unit, point, line, mode, i, index, search_box_size, seg, box,
                   closest, project_distance, skipped, visited, updated, samples>>

\* size_t index = 0; double search_box_size = kSearchBoxEdgeLength; i = 0
BeginScan ==
    /\ pc = "call" /\ Len(line) >= 2
    /\ index' = 0
    /\ search_box_size' = InitialSize(unit)
    /\ i' = 0
    /\ pc' = "scan"
    /\ UNCHANGED <<unit, point, line, mode, seg, box, closest, project_distance,
                   result, skipped, visited, updated, samples>>

\* one iteration of the loop: seg, the probe box, the intersection test,
\* the update of (index, search_box_size), ++i
Iterate ==
    /\ pc = "scan" /\ i < Len(line) - 1
    /\ seg' = SegmentAt(line, i)
    /\ box' = create_box(point, search_box_size)
    /\ \E st \in {ScanStep(point, SegmentAt(line, i), i,
                           [index |-> index, search_box_size |-> search_box_size,
                            taken |-> "none"])} :
          /\ index' = st.index
          /\ search_box_size' = st.search_box_size
          /\ updated' = (updated \/ st.taken = "update")
          /\ skipped' = IF st.taken = "skip" THEN skipped \cup {i} ELSE skipped
    /\ i' = i + 1
    /\ visited' = Append(visited, i)
    /\ UNCHANGED <<unit, point, line, mode, pc, closest, project_distance, result,
                   samples>>

\* after the loop: the accumulation, closest_point and the returned pair
Finish ==
    /\ pc = "scan" /\ i >= Len(line) - 1
    /\ seg' = SegmentAt(line, index)
    /\ closest' = closest_point(point, SegmentAt(line, index))
    /\ project_distance' = Projected(point, line, index, mode)
    /\ result' = <<bg_distance(point, SegmentAt(line, index)),
                   Projected(point, line, index, mode)>>
    /\ pc' = "done"
    /\ UNCHANGED <<unit, point, line, mode, i, index, search_box_size, box,
                   skipped, visited, updated, samples>>

\* closest = closest_point(point, seg)
ClosestPoint ==
    /\ pc = "closest_point"
    /\ closest' = closest_point(point, seg)
    /\ pc' = "closest_point_done"
    /\ UNCHANGED <<unit, point, line, mode, i, index, search_box_size, seg, box,
                   project_distance, result, skipped, visited, updated, samples>>

\* box = create_box(point, search_box_size)
CreateBox ==
    /\ pc = "create_box"
    /\ box' = create_box(point, search_box_size)
    /\ pc' = "create_box_done"
    /\ UNCHANGED <<unit, point, line, mode, i, index, search_box_size, seg,
                   closest, project_distance, result, skipped, visited, updated,
                   samples>>

\* samples.push_back(distance(line[k], line, kAccumulate).second), k = |samples|
SampleVertex ==
    /\ pc = "vertices" /\ Len(samples) < Len(line)
    /\ point' = At(line, Len(samples))
    /\ \E r \in {distance_line(At(line, Len(samples)), line, mode, unit)} :
          /\ result' = r
          /\ samples' = Append(samples, r[2])
    /\ UNCHANGED <<unit, line, mode, pc, i, index, search_box_size, seg, box,
                   closest, project_distance, skipped, visited, updated>>

Next ==
    \/ ReturnEmpty \/ ReturnSingle \/ BeginScan
    \/ Iterate
    \/ Finish

Spec == Init /\ [][Next]_vars

SpecClosest == InitClosest /\ [][ClosestPoint]_vars

SpecBox == InitBox /\ [][CreateBox]_vars

SpecVertices == InitVertices /\ [][SampleVertex]_vars

\* ------------------------------------------------------------- oracles ---
SegmentIndices(l) == 0..(Len(l) - 2)

\* the exact distance from p to segment k of l
SegmentDistance(p, l, k) == bg_distance(p, SegmentAt(l, k))

\* the least distance from p to a segment of l (brute force)
MinDistance(p, l) ==
    LET k == CHOOSE k \in SegmentIndices(l) :
                 \A j \in SegmentIndices(l) :
                     LessEq(SegmentDistance(p, l, k), SegmentDistance(p, l, j))
    IN  SegmentDistance(p, l, k)

\* the lowest index among the segments of l at the least distance from p
FirstNearest(p, l) ==
    CHOOSE k \in SegmentIndices(l) :
        /\ SegmentDistance(p, l, k) = MinDistance(p, l)
        /\ \A j \in 0..(k - 1) : SegmentDistance(p, l, j) # MinDistance(p, l)

\* half of kSearchBoxEdgeLength, in grid units
HalfInitialSize(u) ==
    Root(1, kSearchBoxEdgeLength * kSearchBoxEdgeLength, 4 * u * u)

\* the segments of l closer to p than half of kSearchBoxEdgeLength
CloseSegments(p, l, u) ==
    {k \in SegmentIndices(l) : Less(SegmentDistance(p, l, k), HalfInitialSize(u))}

\* the lengths of the segments 0 .. k-1 of l, in order
RECURSIVE SegmentLengths(_, _)
SegmentLengths(l, k) ==
    IF k = 0 THEN << >>
    ELSE Append(SegmentLengths(l, k - 1), distance(At(l, k - 1), At(l, k)))

IsZeroSum(s) == \A k \in 1..Len(s) : s[k].n = 0

IsNegative(r) == r.sg < 0 /\ r.n > 0

Returned == pc = "done"

\* -------------------------------------------------------------- claims ---
\* C1: for every polyline with at least 2 points and every query point, the
\* first component returned in mode Simple equals the least exact
\* point-to-segment distance over all segments.
C1_NearestIsBruteForceMinimum ==
    (Returned /\ Len(line) >= 2 /\ mode = kSimple)
        => result[1] = MinDistance(point, line)

\* C2: an empty polyline returns exactly (-1, 0), a single-point polyline [P]
\* returns (distance(p, P), 0), in both modes, and the first component is
\* negative exactly when the polyline is empty.
C2_DegenerateResults ==
    Returned =>
        /\ (line = << >>) => (result[1] = Num(-1) /\ IsZeroSum(result[2]))
        /\ (Len(line) = 1) =>
               (result[1] = distance(point, line[1]) /\ IsZeroSum(result[2]))
        /\ IsNegative(result[1]) <=> (line = << >>)

C2_Witness ==
    /\ Returned /\ line = << >> /\ mode = kAccumulate
    /\ IsNegative(result[1])

\* C6: no segment skipped by the intersection test is strictly closer to the
\* point than the segment finally selected.
C6_SkippedNeverCloser ==
    (Returned /\ Len(line) >= 2) =>
        \A k \in skipped :
            ~Less(SegmentDistance(point, line, k), SegmentDistance(point, line, index))

\* C8: the selected index and the nearest distance do not depend on the mode;
\* the Simple projection is distance(L[best], closest_point(point, segment
\* best)); the Accumulate projection is that value plus the lengths of the
\* segments 0 .. best-1; for [(0,0),(1,1),(2,2)] and the query (2,2),
\* Accumulate gives nearest distance 0 and the sum of the two segment lengths.
C8_ProjectionByMode ==
    (Returned /\ Len(line) >= 2) =>
        LET local == distance(At(line, index),
                              closest_point(point, SegmentAt(line, index)))
        IN  /\ \A m \in ProjectionMode :
                   distance_line(point, line, m, unit)[1] = result[1]
            /\ result[1] = SegmentDistance(point, line, index)
            /\ mode = kSimple => result[2] = <<local>>
            /\ mode = kAccumulate =>
                   result[2] = Append(SegmentLengths(line, index), local)
            /\ (/\ line = <<Pt(0, 0), Pt(1, 1), Pt(2, 2)>> /\ point = Pt(2, 2)
                /\ unit = 1 /\ mode = kAccumulate)
                   => /\ result[1] = Num(0)
                      /\ result[2] = <<Root(1, 2, 1), Root(1, 2, 1)>>

C8_Witness ==
    /\ Returned /\ unit = 1 /\ mode = kAccumulate
    /\ line = <<Pt(0, 0), Pt(1, 1), Pt(2, 2)>> /\ point = Pt(2, 2)
    /\ index = 1

\* C10: if some segment is closer to the point than 1000 (half of
\* kSearchBoxEdgeLength), the scan ends on the lowest index among the segments
\* of least distance and returns the brute-force minimum; otherwise the index
\* stays 0.
C10_FirstNearestWithinHalfBox ==
    (Returned /\ Len(line) >= 2) =>
        IF CloseSegments(point, line, unit) # {}
        THEN /\ index = FirstNearest(point, line)
             /\ result[1] = MinDistance(point, line)
        ELSE index = 0

C10_Witness ==
    /\ Returned /\ Len(line) = 3 /\ unit = kSearchBoxEdgeLength
    /\ CloseSegments(point, line, unit) # {}
    /\ SegmentDistance(point, line, 0) = SegmentDistance(point, line, 1)
    /\ SegmentDistance(point, line, 0).n > 0
    /\ index = 0

\* C9: the scan is one forward pass that examines each segment index
\* 0 .. n-2 once, in increasing order; search_box_size never increases and
\* stays within [0, 2000]; the index never decreases and stays within
\* 0 .. n-2; once an update has occurred search_box_size is twice the distance
\* from the point to the segment at index.
C9_ScanState ==
    (pc \in {"scan", "done"} /\ Len(line) >= 2) =>
        /\ i <= Len(line) - 1
        /\ visited = [k \in 1..i |-> k - 1]
        /\ Returned => i = Len(line) - 1
        /\ LessEq(Num(0), search_box_size)
        /\ LessEq(search_box_size, InitialSize(unit))
        /\ index \in SegmentIndices(line)
        /\ updated =>
               search_box_size = Times(2, SegmentDistance(point, line, index))

C9_ScanStep ==
    pc = "scan" =>
        /\ LessEq(search_box_size', search_box_size)
        /\ index' >= index
        /\ i' \in {i, i + 1}
        /\ (i' = i + 1) => visited' = Append(visited, i)
        /\ (i' = i) => (pc' = "done" /\ visited' = visited)

C9_SingleForwardPass == []C9_ScanState /\ [][C9_ScanStep]_vars

C9_Witness ==
    /\ pc = "scan" /\ i = 2 /\ updated /\ index = 0 /\ skipped = {1}
    /\ Less(search_box_size, InitialSize(unit))
    /\ Less(Num(0), search_box_size)

\* ------------------------------------------------- closest_point claims ---
ClosestReturned == pc = "closest_point_done"

\* c = a + t * (b - a) for some t in [0, 1]
OnSegment(c, a, b) ==
    IF a = b THEN SamePoint(c, a)
    ELSE LET abx == b.x - a.x
             aby == b.y - a.y
             acx == c.x - a.x * c.w
             acy == c.y - a.y * c.w
             dot == abx * acx + aby * acy
         IN  /\ c.w > 0
             /\ abx * acy - aby * acx = 0
             /\ 0 <= dot /\ dot <= c.w * (abx * abx + aby * aby)

\* the point a + (j/m) * (b - a)
Along(s, j, m) ==
    [x |-> s.first.x * m + j * (s.second.x - s.first.x),
     y |-> s.first.y * m + j * (s.second.y - s.first.y), w |-> m]

CoordIs(k, v) == CoordLeq(k, v, 1) /\ CoordGeq(k, v, 1)

\* hi - lo and hi + lo for two coordinates over the same distance e
CoordDiff(hi, lo) == Coord(hi.c - lo.c, hi.m - lo.m, hi.e)

CoordSum(hi, lo) == Coord(hi.c + lo.c, hi.m + lo.m, hi.e)

\* C7: create_box(center, edge_length) is the axis-aligned box centred at
\* center whose edge length is edge_length: on every axis
\* max corner - min corner = edge_length, and center is the midpoint.
C7_BoxEdgeLength ==
    pc = "create_box_done" =>
        \A e \in 0..MaxEdge :
            search_box_size = Num(e) =>
                /\ CoordIs(CoordDiff(box.max_corner.x, box.min_corner.x), e)
                /\ CoordIs(CoordDiff(box.max_corner.y, box.min_corner.y), e)
                /\ CoordIs(CoordSum(box.max_corner.x, box.min_corner.x), 2 * point.x)
                /\ CoordIs(CoordSum(box.max_corner.y, box.min_corner.y), 2 * point.y)

\* ------------------------------------------------- monotonicity claim ---
\* floor(sqrt(x)) for 0 <= x, searched in lo..hi
RECURSIVE ISqrtIn(_, _, _)
ISqrtIn(x, lo, hi) ==
    IF lo >= hi THEN lo
    ELSE LET mid == (lo + hi + 1) \div 2
         IN  IF mid * mid <= x THEN ISqrtIn(x, mid, hi) ELSE ISqrtIn(x, lo, mid - 1)

ISqrt(x) == ISqrtIn(x, 0, IF x > 40000 THEN 40000 ELSE x)

\* integers below and above Precision * sqrt(n/d)
Lower(r) == ISqrt((r.n * Precision * Precision) \div r.d)

Upper(r) ==
    LET lo == Lower(r)
    IN  IF lo * lo * r.d = r.n * Precision * Precision THEN lo ELSE lo + 1

RECURSIVE SumLower(_)
SumLower(s) == IF s = << >> THEN 0 ELSE Lower(Head(s)) + SumLower(Tail(s))

RECURSIVE SumUpper(_)
SumUpper(s) == IF s = << >> THEN 0 ELSE Upper(Head(s)) + SumUpper(Tail(s))

Count(s, t) == Cardinality({j \in 1..Len(s) : s[j] = t})

\* every nonzero term of s occurs in t at least as often
SubSum(s, t) == \A k \in 1..Len(s) : s[k].n = 0 \/ Count(s, s[k]) <= Count(t, s[k])

\* the sum s is certainly <= the sum t
SumLeq(s, t) == SubSum(s, t) \/ SumUpper(s) <= SumLower(t)

\* the sum s is certainly > the sum t
SumGreater(s, t) == SumLower(s) > SumUpper(t)

\* no vertex lies on a segment before the one that ends at it
NoRevisit(l) ==
    \A k \in 2..(Len(l) - 1) : \A j \in 0..(k - 2) :
        SegmentDistance(At(l, k), l, j).n > 0

\* C3 as stated: for every polyline with at least 2 points, in mode
\* Accumulate, the projection distance sampled at the vertices L[0], L[1],
\* ... is non-decreasing in the vertex index.
C3_MonotoneAtVertices ==
    \A k \in 1..(Len(samples) - 1) : ~SumGreater(samples[k], samples[k + 1])

\* C3 amended: the same, for polylines none of whose vertices lies on a
\* segment before the one that ends at it.
C3_MonotoneWithoutRevisit ==
    NoRevisit(line) =>
        \A k \in 1..(Len(samples) - 1) : SumLeq(samples[k], samples[k + 1])

C3_Witness ==
    /\ Len(samples) = 3 /\ NoRevisit(line) /\ unit = kSearchBoxEdgeLength
    /\ SumGreater(samples[2], samples[1])
    /\ SumGreater(samples[3], samples[2])

=============================================================================
